---- MODULE Spec2Model ----
(***************************************************************************)
(* Model of main.py: the Field/Record/AddressBook classes, the upcoming-   *)
(* birthday query, the input_error handlers and the interactive loop.      *)
(*                                                                         *)
(* Strings are TLA+ strings (character access through SubSeq).  A datetime *)
(* is a record [year, month, day, tick]: tick is the time of day, counted  *)
(* in TicksPerDay equal parts of a day, tick 0 being midnight.             *)
(* An operation returns a record whose field exc is "" on a normal return  *)
(* and the exception's type otherwise.                                     *)
(***************************************************************************)
EXTENDS Integers, Sequences, FiniteSets, TLC

VARIABLES book, ret, session

vars == <<book, ret, session>>

(* ------------------------------ bounds -------------------------------- *)

\* Longest phone list a record of the model grows to.
MaxPhones == 3

\* Resolution of the time of day (the code's is the microsecond).
TicksPerDay == 2

(* ----------------------------- constants ------------------------------ *)

\* len(number) != 10
PhoneLen == 10

Names == {"Ann", "Bob"}

BirthdayNames == Names \cup {"Dee"}

ValidPhones == {"1112223333", "4445556666"}

\* Too short; ten characters, not all digits.
BadPhones == {"123", "12345abcde"}

PhoneInputs == ValidPhones \cup BadPhones

\* The numbers looked for in a phone list: the valid ones and one never stored.
OldPhones == ValidPhones \cup {"123"}

ValidDates == {"10.06.1990", "15.06.1985", "29.02.2000", "01.01.2001"}

BadDates == {"31.02.2020", "2024-01-01"}

DateInputs == ValidDates \cup BadDates

\* str.isdigit() over the ASCII alphabet of the inputs.
isdigit(s) ==
    /\ Len(s) > 0
    /\ \A i \in 1..Len(s) :
          SubSeq(s, i, i) \in {"0", "1", "2", "3", "4", "5", "6", "7", "8", "9"}

DigitVal(c) ==
    CASE c = "0" -> 0 [] c = "1" -> 1 [] c = "2" -> 2 [] c = "3" -> 3
      [] c = "4" -> 4 [] c = "5" -> 5 [] c = "6" -> 6 [] c = "7" -> 7
      [] c = "8" -> 8 [] c = "9" -> 9

\* int() of the first k characters of a string of digits.
RECURSIVE ToIntUpTo(_, _)
ToIntUpTo(s, k) ==
    IF k = 0 THEN 0 ELSE 10 * ToIntUpTo(s, k - 1) + DigitVal(SubSeq(s, k, k))

ToInt(s) == ToIntUpTo(s, Len(s))

DigitStr(n) == SubSeq("0123456789", n + 1, n + 1)

\* %d and %m of strftime: two digits, zero padded.
Pad2(n) == DigitStr((n \div 10) % 10) \o DigitStr(n % 10)

\* %Y of strftime: four digits.
Pad4(n) == Pad2(n \div 100) \o Pad2(n % 100)

(* ------------------------------ calendar ------------------------------ *)

IsLeap(y) == (y % 4 = 0 /\ y % 100 # 0) \/ y % 400 = 0

DaysInMonth(y, m) ==
    IF m = 2 THEN (IF IsLeap(y) THEN 29 ELSE 28)
    ELSE IF m \in {4, 6, 9, 11} THEN 30 ELSE 31

RECURSIVE DaysBeforeMonth(_, _)
DaysBeforeMonth(y, m) ==
    IF m = 1 THEN 0 ELSE DaysBeforeMonth(y, m - 1) + DaysInMonth(y, m - 1)

\* date.toordinal(): 1 is 0001-01-01.
toordinal(dt) ==
    LET y == dt.year - 1
    IN  y * 365 + (y \div 4) - (y \div 100) + (y \div 400)
          + DaysBeforeMonth(dt.year, dt.month) + dt.day

\* date.weekday(): Monday is 0, Saturday 5, Sunday 6.
weekday(dt) == (toordinal(dt) + 6) % 7

\* The instant as a count of ticks, for comparison and subtraction.
Ticks(dt) == toordinal(dt) * TicksPerDay + dt.tick

\* datetime.__lt__
lt(a, b) == Ticks(a) < Ticks(b)

\* (a - b).days: timedelta normalises to days + a non-negative rest.
delta_days(a, b) == (Ticks(a) - Ticks(b)) \div TicksPerDay

NextDay(dt) ==
    IF dt.day < DaysInMonth(dt.year, dt.month) THEN [dt EXCEPT !.day = @ + 1]
    ELSE IF dt.month < 12 THEN [dt EXCEPT !.month = @ + 1, !.day = 1]
    ELSE [dt EXCEPT !.year = @ + 1, !.month = 1, !.day = 1]

\* dt + timedelta(days=k), k >= 0.
RECURSIVE add_days(_, _)
add_days(dt, k) == IF k = 0 THEN dt ELSE add_days(NextDay(dt), k - 1)

\* datetime.replace(year=y): ValueError when the day does not exist in y.
replace_year(dt, y) ==
    IF dt.day <= DaysInMonth(y, dt.month)
    THEN [exc |-> "", msg |-> "", value |-> [dt EXCEPT !.year = y]]
    ELSE [exc |-> "ValueError", msg |-> "day is out of range for month", value |-> dt]

\* datetime.strftime("%d.%m.%Y")
strftime(dt) == Pad2(dt.day) \o "." \o Pad2(dt.month) \o "." \o Pad4(dt.year)

\* datetime.strptime(value, "%d.%m.%Y"): one or two digits of day, a dot, one
\* or two digits of month, a dot, four digits of year, naming a real date.
strptime(s) ==
    LET dots == {i \in 1..Len(s) : SubSeq(s, i, i) = "."}
        p1 == CHOOSE i \in dots : \A j \in dots : i <= j
        p2 == CHOOSE i \in dots : \A j \in dots : j <= i
        ds == SubSeq(s, 1, p1 - 1)
        ms == SubSeq(s, p1 + 1, p2 - 1)
        ys == SubSeq(s, p2 + 1, Len(s))
        bad == [exc |-> "ValueError", msg |-> "does not match format",
                value |-> [year |-> 0, month |-> 0, day |-> 0, tick |-> 0]]
    IN  IF Cardinality(dots) # 2 THEN bad
        ELSE IF ~(isdigit(ds) /\ isdigit(ms) /\ isdigit(ys)) THEN bad
        ELSE IF ~(Len(ds) <= 2 /\ Len(ms) <= 2 /\ Len(ys) = 4) THEN bad
        ELSE IF ~(ToInt(ms) \in 1..12 /\ ToInt(ds) \in 1..31 /\ ToInt(ys) >= 1) THEN bad
        ELSE IF ToInt(ds) > DaysInMonth(ToInt(ys), ToInt(ms))
             THEN [bad EXCEPT !.msg = "day is out of range for month"]
        ELSE [exc |-> "", msg |-> "",
              value |-> [year |-> ToInt(ys), month |-> ToInt(ms),
                         day |-> ToInt(ds), tick |-> 0]]

\* The moments datetime.now() is read at.
Todays ==
    { [year |-> d[1], month |-> d[2], day |-> d[3], tick |-> t] :
        d \in {<<2024, 6, 10>>, <<2024, 6, 7>>, <<2025, 6, 10>>,
               <<2023, 12, 30>>, <<2024, 2, 26>>},
        t \in 0..(TicksPerDay - 1) }

(* ------------------------------- fields ------------------------------- *)

\* Phone.__init__: the value, or ValueError.
Phone(number) ==
    IF ~isdigit(number) \/ Len(number) # PhoneLen
    THEN [exc |-> "ValueError", msg |-> "The phone number must be a string of 10 digits",
          value |-> number]
    ELSE [exc |-> "", msg |-> "", value |-> number]

\* Birthday.__init__: the parsed date, or ValueError.
Birthday(value) ==
    LET parsed == strptime(value)
    IN  IF parsed.exc # ""
        THEN [parsed EXCEPT !.msg = "Invalid date format. Use DD.MM.YYYY"]
        ELSE parsed

(* ------------------------------- Record ------------------------------- *)

\* Record.__init__; birthday is <<>> for None and <<date>> when set.
Record(name) == [name |-> name, phones |-> <<>>, birthday |-> <<>>]

\* Record.find_phone: index of the first phone equal to number, 0 for None.
find_phone(rec, number) ==
    IF \E i \in 1..Len(rec.phones) : rec.phones[i] = number
    THEN CHOOSE i \in 1..Len(rec.phones) :
            /\ rec.phones[i] = number
            /\ \A j \in 1..(i - 1) : rec.phones[j] # number
    ELSE 0

RemoveAt(s, i) == SubSeq(s, 1, i - 1) \o SubSeq(s, i + 1, Len(s))

\* Record.add_phone
add_phone(rec, number) ==
    LET phone == Phone(number)
    IN  IF phone.exc # "" THEN [exc |-> phone.exc, msg |-> phone.msg, rec |-> rec]
        ELSE [exc |-> "", msg |-> "",
              rec |-> [rec EXCEPT !.phones = Append(@, phone.value)]]

\* remove_phone dropping every phone equal to number, not the first only.
remove_phone_all(rec, number) ==
    IF find_phone(rec, number) # 0
    THEN [value |-> TRUE,
          rec |-> [rec EXCEPT !.phones = SelectSeq(@, LAMBDA p : p # number)]]
    ELSE [value |-> FALSE, rec |-> rec]

\* Record.remove_phone
remove_phone(rec, number) ==
    LET i == find_phone(rec, number)
    IN  IF i # 0
        THEN [value |-> TRUE, rec |-> [rec EXCEPT !.phones = RemoveAt(@, i)]]
        ELSE [value |-> FALSE, rec |-> rec]

\* edit_phone removing the old number before the new one is validated.
edit_phone_remove_first(rec, old_number, new_number) ==
    IF find_phone(rec, old_number) # 0
    THEN LET removed == remove_phone(rec, old_number).rec
             added == add_phone(removed, new_number)
         IN  [exc |-> added.exc, msg |-> added.msg, rec |-> added.rec]
    ELSE [exc |-> "ValueError", msg |-> "Old number " \o old_number \o " not found",
          rec |-> rec]

\* edit_phone dropping every phone equal to the old number.
edit_phone_filter(rec, old_number, new_number) ==
    IF find_phone(rec, old_number) # 0
    THEN LET added == add_phone(rec, new_number)
         IN  IF added.exc # "" THEN added
             ELSE [exc |-> "", msg |-> "",
                   rec |-> [added.rec EXCEPT
                              !.phones = SelectSeq(@, LAMBDA p : p # old_number)]]
    ELSE [exc |-> "ValueError", msg |-> "Old number " \o old_number \o " not found",
          rec |-> rec]

\* Record.edit_phone
edit_phone(rec, old_number, new_number) ==
    IF find_phone(rec, old_number) # 0
    THEN LET added == add_phone(rec, new_number)
         IN  IF added.exc # "" THEN added
             ELSE [exc |-> "", msg |-> "",
                   rec |-> remove_phone(added.rec, old_number).rec]
    ELSE [exc |-> "ValueError", msg |-> "Old number " \o old_number \o " not found",
          rec |-> rec]

\* Record.add_birthday
add_birthday(rec, birthday) ==
    LET b == Birthday(birthday)
    IN  IF b.exc # "" THEN [exc |-> b.exc, msg |-> b.msg, rec |-> rec]
        ELSE [exc |-> "", msg |-> "", rec |-> [rec EXCEPT !.birthday = <<b.value>>]]

\* sep.join(strs), from element i on.
RECURSIVE JoinFrom(_, _, _)
JoinFrom(sep, strs, i) ==
    IF i > Len(strs) THEN ""
    ELSE IF i = Len(strs) THEN strs[i]
    ELSE strs[i] \o sep \o JoinFrom(sep, strs, i + 1)

Join(sep, strs) == JoinFrom(sep, strs, 1)

\* Record.__str__
Record_str(rec) ==
    "Contact name: " \o rec.name \o ", phones: " \o Join("; ", rec.phones)

(* ----------------------------- AddressBook ---------------------------- *)
\* self.data, a dict in insertion order: a sequence of [key, rec], keys distinct.

Keys(data) == {data[i].key : i \in 1..Len(data)}

IndexOf(data, name) ==
    IF name \in Keys(data) THEN CHOOSE i \in 1..Len(data) : data[i].key = name ELSE 0

\* AddressBook.find: <<>> for None, <<record>> otherwise.
find(data, name) ==
    IF IndexOf(data, name) = 0 THEN <<>> ELSE <<data[IndexOf(data, name)].rec>>

\* AddressBook.add_record: a new key goes last, a known key keeps its place.
add_record(data, record) ==
    IF IndexOf(data, record.name) = 0
    THEN Append(data, [key |-> record.name, rec |-> record])
    ELSE [data EXCEPT ![IndexOf(data, record.name)] =
                          [key |-> record.name, rec |-> record]]

\* delete dropping the entry added last instead of the named one.
delete_last(data, name) ==
    IF name \in Keys(data)
    THEN [exc |-> "", msg |-> "", data |-> RemoveAt(data, Len(data))]
    ELSE [exc |-> "ValueError", msg |-> "Record with name " \o name \o " not found.",
          data |-> data]

\* AddressBook.delete
delete(data, name) ==
    IF name \in Keys(data)
    THEN [exc |-> "", msg |-> "", data |-> RemoveAt(data, IndexOf(data, name))]
    ELSE [exc |-> "ValueError", msg |-> "Record with name " \o name \o " not found.",
          data |-> data]

\* A record found by name and changed in place.
SetRec(data, name, rec) == [data EXCEPT ![IndexOf(data, name)].rec = rec]

\* shift_weekend testing for Saturday only.
shift_weekend_saturday_only(dt) ==
    IF weekday(dt) = 5 THEN add_days(dt, 7 - weekday(dt)) ELSE dt

\* timedelta(days=(7 - this_year_birthday.weekday())) for weekday 5 or 6.
shift_weekend(dt) ==
    IF weekday(dt) \in {5, 6} THEN add_days(dt, 7 - weekday(dt)) ELSE dt

\* (this_year_birthday - today).days
days_until_birthday(this_year_birthday, today) == delta_days(this_year_birthday, today)

\* if record.birthday: this_year_birthday = ...; otherwise the local keeps
\* what the previous iteration left in it (<<>> while it is unbound).
this_year(record, today, carried) ==
    IF record.birthday # <<>>
    THEN LET r == replace_year(record.birthday[1], today.year)
         IN  [exc |-> r.exc, msg |-> r.msg, value |-> <<r.value>>]
    ELSE [exc |-> "", msg |-> "", value |-> carried]

\* The body of the for loop of get_upcoming_birthdays, from record i on;
\* carried is the local this_year_birthday, acc is upcoming_birthdays.
RECURSIVE upcoming_loop(_, _, _, _, _)
upcoming_loop(data, i, today, carried, acc) ==
    IF i > Len(data) THEN [exc |-> "", msg |-> "", value |-> acc]
    ELSE
      LET record == data[i].rec
          s1 == this_year(record, today, carried)
      IN  IF s1.exc # "" THEN [exc |-> s1.exc, msg |-> s1.msg, value |-> <<>>]
          ELSE IF s1.value = <<>>
          THEN [exc |-> "UnboundLocalError",
                msg |-> "cannot access local variable 'this_year_birthday' where it is not associated with a value",
                value |-> <<>>]
          ELSE
            LET b1 == s1.value[1]
                s2 == IF lt(b1, today) THEN replace_year(b1, today.year + 1)
                      ELSE [exc |-> "", msg |-> "", value |-> b1]
            IN  IF s2.exc # "" THEN [exc |-> s2.exc, msg |-> s2.msg, value |-> <<>>]
                ELSE
                  LET b2 == s2.value
                      days == days_until_birthday(b2, today)
                  IN  IF 0 <= days /\ days <= 7
                      THEN upcoming_loop(data, i + 1, today, <<shift_weekend(b2)>>,
                             Append(acc, [name |-> record.name,
                                          birthday |-> strftime(shift_weekend(b2))]))
                      ELSE upcoming_loop(data, i + 1, today, <<b2>>, acc)

\* AddressBook.get_upcoming_birthdays, today being what datetime.now() returns.
get_upcoming_birthdays(data, today) == upcoming_loop(data, 1, today, <<>>, <<>>)

(* --------------------- the classes called directly -------------------- *)

NoToday == [year |-> 0, month |-> 0, day |-> 0, tick |-> 0]

\* What the last call was, and what it returned or raised.
Ret(op, args, exc, msg, flag, list, today) ==
    [op |-> op, args |-> args, exc |-> exc, msg |-> msg, flag |-> flag,
     list |-> list, today |-> today]

NewSession == [status |-> "running", line |-> "", printed |-> FALSE, out |-> ""]

Init ==
    /\ book = <<>>
    /\ ret = Ret("", <<>>, "", "", FALSE, <<>>, NoToday)
    /\ session = NewSession

\* book.add_record(Record(name))
AddRecord ==
    \E name \in Names :
        /\ book' = add_record(book, Record(name))
        /\ ret' = Ret("add_record", <<name>>, "", "", FALSE, <<>>, NoToday)
        /\ UNCHANGED session

\* book.delete(name)
Delete ==
    \E name \in Names :
        LET r == delete(book, name)
        IN  /\ book' = r.data
            /\ ret' = Ret("delete", <<name>>, r.exc, r.msg, FALSE, <<>>, NoToday)
            /\ UNCHANGED session

\* book.find(name).add_phone(number)
AddPhone ==
    \E name \in Keys(book), number \in PhoneInputs :
        LET rec == find(book, name)[1]
            r == add_phone(rec, number)
        IN  /\ Len(rec.phones) < MaxPhones
            /\ book' = SetRec(book, name, r.rec)
            /\ ret' = Ret("add_phone", <<name, number>>, r.exc, r.msg, FALSE, <<>>, NoToday)
            /\ UNCHANGED session

\* book.find(name).remove_phone(number)
RemovePhone ==
    \E name \in Keys(book), number \in OldPhones :
        LET r == remove_phone(find(book, name)[1], number)
        IN  /\ book' = SetRec(book, name, r.rec)
            /\ ret' = Ret("remove_phone", <<name, number>>, "", "", r.value, <<>>, NoToday)
            /\ UNCHANGED session

\* book.find(name).edit_phone(old, new)
EditPhone ==
    \E name \in Keys(book), old \in OldPhones, new \in PhoneInputs :
        LET r == edit_phone(find(book, name)[1], old, new)
        IN  /\ book' = SetRec(book, name, r.rec)
            /\ ret' = Ret("edit_phone", <<name, old, new>>, r.exc, r.msg, FALSE, <<>>, NoToday)
            /\ UNCHANGED session

\* book.find(name).add_birthday(birthday)
AddBirthday ==
    \E name \in Keys(book) \cap Names, birthday \in DateInputs :
        LET r == add_birthday(find(book, name)[1], birthday)
        IN  /\ book' = SetRec(book, name, r.rec)
            /\ ret' = Ret("add_birthday", <<name, birthday>>, r.exc, r.msg, FALSE, <<>>, NoToday)
            /\ UNCHANGED session

\* book.get_upcoming_birthdays()
GetUpcomingBirthdays ==
    \E today \in Todays :
        LET r == get_upcoming_birthdays(book, today)
        IN  /\ ret' = Ret("get_upcoming_birthdays", <<>>, r.exc, r.msg, FALSE, r.value, today)
            /\ UNCHANGED <<book, session>>

\* Records and their phone lists.
Next ==
    \/ AddRecord
    \/ Delete
    \/ AddPhone
    \/ RemovePhone
    \/ EditPhone

Spec == Init /\ [][Next]_vars

\* book.add_record(Record(name)); "Dee" is the contact that is given no birthday.
AddBirthdayRecord ==
    \E name \in BirthdayNames :
        /\ book' = add_record(book, Record(name))
        /\ ret' = Ret("add_record", <<name>>, "", "", FALSE, <<>>, NoToday)
        /\ UNCHANGED session

\* Records, their birthdays and the upcoming-birthday query.
BirthdayNext ==
    \/ AddBirthdayRecord
    \/ AddBirthday
    \/ GetUpcomingBirthdays

BirthdaySpec == Init /\ [][BirthdayNext]_vars

(* --------------------------- the handlers ----------------------------- *)

IsSpace(s, i) == SubSeq(s, i, i) = " "

\* Where the words of s begin, and where the word beginning at i ends.
WordStarts(s) == {i \in 1..Len(s) : ~IsSpace(s, i) /\ (i = 1 \/ IsSpace(s, i - 1))}

WordEnd(s, i) ==
    CHOOSE j \in i..Len(s) :
        /\ \A k \in i..j : ~IsSpace(s, k)
        /\ (j = Len(s) \/ IsSpace(s, j + 1))

NthStart(s, n) ==
    CHOOSE i \in WordStarts(s) : Cardinality({j \in WordStarts(s) : j < i}) = n - 1

\* str.split(): the words of s, separated by runs of spaces.
split(s) ==
    [n \in 1..Cardinality(WordStarts(s)) |->
        SubSeq(s, NthStart(s, n), WordEnd(s, NthStart(s, n)))]

\* str.split(maxsplit=1): the first word and, when something follows it, the
\* rest of the line from its first non-blank character on.
split_maxsplit1(s) ==
    IF Cardinality(WordStarts(s)) = 0 THEN <<>>
    ELSE IF Cardinality(WordStarts(s)) = 1
    THEN <<SubSeq(s, NthStart(s, 1), WordEnd(s, NthStart(s, 1)))>>
    ELSE <<SubSeq(s, NthStart(s, 1), WordEnd(s, NthStart(s, 1))),
           SubSeq(s, NthStart(s, 2), Len(s))>>

\* What a handler returns or raises, and the book it leaves.
Result(exc, msg, value, data) == [exc |-> exc, msg |-> msg, value |-> value, data |-> data]

\* name, phone = args and name, old, new = args: ValueError unless len(args) = n.
unpack(args, n) ==
    IF Len(args) < n THEN "not enough values to unpack"
    ELSE IF Len(args) > n THEN "too many values to unpack"
    ELSE ""

\* input_error: the string the wrapped handler returns.
input_error(r) ==
    IF r.exc = "" THEN r.value
    ELSE IF r.exc = "ValueError" THEN "ValueError: " \o r.msg
    ELSE IF r.exc = "IndexError" THEN "Please provide the correct number of arguments."
    ELSE IF r.exc = "KeyError" THEN "Contact not found."
    ELSE r.msg

\* add_contact without the test for a contact of that name.
add_contact_no_check(args, data) ==
    IF unpack(args, 2) # "" THEN Result("ValueError", unpack(args, 2), "", data)
    ELSE LET r == add_phone(Record(args[1]), args[2])
         IN  IF r.exc # "" THEN Result(r.exc, r.msg, "", data)
             ELSE Result("", "", "Contact added.", add_record(data, r.rec))

add_contact(args, data) ==
    IF unpack(args, 2) # "" THEN Result("ValueError", unpack(args, 2), "", data)
    ELSE IF args[1] \in Keys(data)
    THEN Result("ValueError", "Contact with name " \o args[1] \o " already exists.", "", data)
    ELSE LET r == add_phone(Record(args[1]), args[2])
         IN  IF r.exc # "" THEN Result(r.exc, r.msg, "", data)
             ELSE Result("", "", "Contact added.", add_record(data, r.rec))

\* change_contact calling add_phone(new_phone) where edit_phone is meant.
change_contact_add(args, data) ==
    IF unpack(args, 3) # "" THEN Result("ValueError", unpack(args, 3), "", data)
    ELSE IF find(data, args[1]) # <<>>
    THEN LET r == add_phone(find(data, args[1])[1], args[3])
         IN  IF r.exc # "" THEN Result(r.exc, r.msg, "", data)
             ELSE Result("", "", "Contact updated.", SetRec(data, args[1], r.rec))
    ELSE Result("KeyError", "Contact with name " \o args[1] \o " not found.", "", data)

change_contact(args, data) ==
    IF unpack(args, 3) # "" THEN Result("ValueError", unpack(args, 3), "", data)
    ELSE IF find(data, args[1]) # <<>>
    THEN LET r == edit_phone(find(data, args[1])[1], args[2], args[3])
         IN  IF r.exc # "" THEN Result(r.exc, r.msg, "", data)
             ELSE Result("", "", "Contact updated.", SetRec(data, args[1], r.rec))
    ELSE Result("KeyError", "Contact with name " \o args[1] \o " not found.", "", data)

show_phone(args, data) ==
    IF Len(args) = 0 THEN Result("IndexError", "list index out of range", "", data)
    ELSE IF find(data, args[1]) # <<>>
    THEN Result("", "", "Phone(s) for " \o args[1] \o ": "
                          \o Join(", ", find(data, args[1])[1].phones), data)
    ELSE Result("KeyError", "", "", data)

show_all_phones(data) ==
    IF Len(data) = 0 THEN Result("", "", "No contacts available.", data)
    ELSE Result("", "", Join("\n", [i \in 1..Len(data) |-> Record_str(data[i].rec)]), data)

add_birthday_cmd(args, data) ==
    IF unpack(args, 2) # "" THEN Result("ValueError", unpack(args, 2), "", data)
    ELSE IF find(data, args[1]) = <<>>
    THEN Result("ValueError", "Contact " \o args[1] \o " not found.", "", data)
    ELSE LET r == add_birthday(find(data, args[1])[1], args[2])
         IN  IF r.exc # "" THEN Result(r.exc, r.msg, "", data)
             ELSE Result("", "", "Birthday " \o args[2] \o " added to contact "
                                   \o args[1] \o ".", SetRec(data, args[1], r.rec))

show_birthday(args, data) ==
    IF Len(args) = 0 THEN Result("IndexError", "list index out of range", "", data)
    ELSE IF find(data, args[1]) = <<>> \/ find(data, args[1])[1].birthday = <<>>
    THEN Result("ValueError", "No birthday found for contact " \o args[1] \o ".", "", data)
    ELSE Result("", "", "Birthday of " \o args[1] \o ": "
                          \o strftime(find(data, args[1])[1].birthday[1]), data)

show_upcoming_birthdays(data, today) ==
    LET r == get_upcoming_birthdays(data, today)
    IN  IF r.exc # "" THEN Result(r.exc, r.msg, "", data)
        ELSE IF Len(r.value) = 0 THEN Result("", "", "No upcoming birthdays.", data)
        ELSE Result("", "", Join("\n", [i \in 1..Len(r.value) |->
                              r.value[i].name \o ": " \o r.value[i].birthday]), data)

(* ------------------------- the interactive loop ----------------------- *)

NameArgs == {" " \o n : n \in Names}

PhoneArgs == {" " \o p : p \in PhoneInputs}

\* The lines typed at the prompt.
Lines ==
    {"", "  ", "hello", "close", "exit", "all", "birthdays", "remove Ann",
     "add", "change", "phone", "add-birthday", "show-birthday"}
    \cup {"add" \o n : n \in NameArgs}
    \cup {"add" \o n \o p : n \in NameArgs, p \in PhoneArgs}
    \cup {"add" \o n \o p \o p : n \in NameArgs, p \in {" 1112223333"}}
    \cup {"change" \o n \o p : n \in NameArgs, p \in {" 1112223333"}}
    \cup {"change" \o n \o " " \o old \o new :
            n \in NameArgs, old \in ValidPhones, new \in PhoneArgs}
    \cup {"phone" \o n : n \in NameArgs}
    \cup {"add-birthday" \o n : n \in NameArgs}
    \cup {"add-birthday" \o n \o " " \o d :
            n \in NameArgs, d \in {"10.06.1990", "15.06.1985", "31.02.2020"}}
    \cup {"show-birthday" \o n : n \in NameArgs}

\* user_input.split(maxsplit=1) of each line, and args[0].split() of those
\* that have arguments.
LineParts == [line \in Lines |-> split_maxsplit1(line)]

LineArgs ==
    [line \in Lines |->
        IF Len(LineParts[line]) = 2 THEN split(LineParts[line][2]) ELSE <<>>]

\* One iteration of the while loop of main: the line read, the handler run,
\* its message printed; an exception raised outside a handler ends main.
Crash(line, exc) == [status |-> "crashed", line |-> line, printed |-> FALSE, out |-> exc]

Prints(line, text) == [status |-> "running", line |-> line, printed |-> TRUE, out |-> text]

Handle(command, args, today) ==
    IF command = "add" THEN add_contact(args, book)
    ELSE IF command = "change" THEN change_contact(args, book)
    ELSE IF command = "phone" THEN show_phone(args, book)
    ELSE IF command = "add-birthday" THEN add_birthday_cmd(args, book)
    ELSE IF command = "show-birthday" THEN show_birthday(args, book)
    ELSE IF command = "all" THEN show_all_phones(book)
    ELSE show_upcoming_birthdays(book, today)

main_iteration(line, today) ==
    LET parts == LineParts[line]
        command == parts[1]
        args == Tail(parts)
    IN  IF Len(parts) = 0
        THEN session' = Crash(line, "ValueError") /\ UNCHANGED book
        ELSE IF command \in {"close", "exit"}
        THEN /\ session' = [status |-> "ended", line |-> line, printed |-> TRUE,
                            out |-> "Good bye!"]
             /\ UNCHANGED book
        ELSE IF command = "hello"
        THEN session' = Prints(line, "How can I help you?") /\ UNCHANGED book
        ELSE IF command \in {"add", "change", "phone", "add-birthday", "show-birthday"}
        THEN IF Len(args) = 0
             THEN session' = Crash(line, "IndexError") /\ UNCHANGED book
             ELSE LET r == Handle(command, LineArgs[line], today)
                  IN  session' = Prints(line, input_error(r)) /\ book' = r.data
        ELSE IF command \in {"all", "birthdays"}
        THEN LET r == Handle(command, <<>>, today)
             IN  session' = Prints(line, input_error(r)) /\ book' = r.data
        ELSE session' = Prints(line, "Invalid command.") /\ UNCHANGED book

\* datetime.now() is read by the birthdays command only.
Clock(line) ==
    IF LineParts[line] # <<>> /\ LineParts[line][1] = "birthdays"
    THEN Todays ELSE {NoToday}

Main ==
    /\ session.status = "running"
    /\ \E line \in Lines : \E today \in Clock(line) : main_iteration(line, today)
    /\ UNCHANGED ret

SessionNext == Main

SessionSpec == Init /\ [][SessionNext]_vars

(* ------------------------------ properties ---------------------------- *)

\* A string of exactly ten ASCII digits.
TenDigits(s) ==
    /\ Len(s) = 10
    /\ \A i \in 1..Len(s) :
          SubSeq(s, i, i) \in {"0", "1", "2", "3", "4", "5", "6", "7", "8", "9"}

Contains(s, x) == \E i \in 1..Len(s) : s[i] = x

Count(s, x) == Cardinality({i \in 1..Len(s) : s[i] = x})

StartsWith(s, prefix) == Len(s) >= Len(prefix) /\ SubSeq(s, 1, Len(prefix)) = prefix

\* s without its first element equal to x.
WithoutFirst(s, x) ==
    LET i == CHOOSE k \in 1..Len(s) : s[k] = x /\ \A j \in 1..(k - 1) : s[j] # x
    IN  [k \in 1..(Len(s) - 1) |-> IF k < i THEN s[k] ELSE s[k + 1]]

PhonesOf(data, name) == find(data, name)[1].phones

\* The next occurrence of a birthday: its month and day in today's year, in the
\* year after when that date is before today's date.
Candidate(birthday, today) ==
    LET this == [year |-> today.year, month |-> birthday.month,
                 day |-> birthday.day, tick |-> 0]
    IN  IF toordinal(this) < toordinal(today) THEN [this EXCEPT !.year = @ + 1] ELSE this

\* Whole calendar days from today's date to the date d.
CalendarDays(d, today) == toordinal(d) - toordinal(today)

\* The following Monday of a Saturday or Sunday, the date itself otherwise.
NextBusinessDay(d) ==
    IF weekday(d) = 5 THEN add_days(d, 2)
    ELSE IF weekday(d) = 6 THEN add_days(d, 1)
    ELSE d

Emitted(list) == {list[k].name : k \in 1..Len(list)}

HasBirthday(entry) == entry.rec.birthday # <<>>

\* C1: get_upcoming_birthdays skips the records without a birthday: its outcome
\* (the entries, in order, and whether it fails) is the one it has on the book
\* with those records left out.
C1_BirthdaylessRecordsSkipped ==
    ret.op = "get_upcoming_birthdays" =>
        LET expected == get_upcoming_birthdays(SelectSeq(book, HasBirthday), ret.today)
        IN  /\ ret.exc = expected.exc
            /\ ret.list = expected.value
            /\ \A k \in 1..Len(ret.list) : find(book, ret.list[k].name)[1].birthday # <<>>

\* C2: a record with a birthday is in the result of get_upcoming_birthdays if
\* and only if its candidate is 0 to 7 whole calendar days after today's date,
\* whatever the time of day.
C2_IncludedIffWithinSevenCalendarDays ==
    (ret.op = "get_upcoming_birthdays" /\ ret.exc = "") =>
        \A i \in 1..Len(book) :
            HasBirthday(book[i]) =>
                LET days == CalendarDays(Candidate(book[i].rec.birthday[1], ret.today),
                                         ret.today)
                IN  (book[i].key \in Emitted(ret.list)) <=> (0 <= days /\ days <= 7)

\* C3: every date get_upcoming_birthdays emits is a Monday to Friday; the entry
\* of a record with a birthday is its candidate, moved to the following Monday
\* when it is a Saturday (+2) or a Sunday (+1), and the record is emitted exactly
\* when the candidate itself, not the moved date, passes the window test
\* 0 <= (candidate - today).days <= 7.
C3_WeekendShiftedToMonday ==
    (ret.op = "get_upcoming_birthdays" /\ ret.exc = "") =>
        /\ \A k \in 1..Len(ret.list) :
              /\ strptime(ret.list[k].birthday).exc = ""
              /\ weekday(strptime(ret.list[k].birthday).value) \in 0..4
        /\ \A i \in 1..Len(book) :
              HasBirthday(book[i]) =>
                  LET candidate == Candidate(book[i].rec.birthday[1], ret.today)
                      days == days_until_birthday(candidate, ret.today)
                  IN  /\ (book[i].key \in Emitted(ret.list)) <=> (0 <= days /\ days <= 7)
                      /\ \A k \in 1..Len(ret.list) :
                            ret.list[k].name = book[i].key =>
                                ret.list[k].birthday = strftime(NextBusinessDay(candidate))

\* A candidate on a Saturday, six or seven days ahead, emitted as the Monday
\* after it, next to one emitted unchanged.
C3_Witness ==
    /\ ret.op = "get_upcoming_birthdays"
    /\ ret.exc = ""
    /\ \E i \in 1..Len(book) :
          /\ HasBirthday(book[i])
          /\ weekday(Candidate(book[i].rec.birthday[1], ret.today)) = 5
          /\ \E k \in 1..Len(ret.list) :
                /\ ret.list[k].name = book[i].key
                /\ ret.list[k].birthday
                     = strftime(add_days(Candidate(book[i].rec.birthday[1], ret.today), 2))
    /\ \E i \in 1..Len(book) :
          /\ HasBirthday(book[i])
          /\ weekday(Candidate(book[i].rec.birthday[1], ret.today)) \in 0..4
          /\ book[i].key \in Emitted(ret.list)

\* What a step that is a call of edit_phone does to the book.
C4_FailedEditStep ==
    ret'.op = "edit_phone" =>
        LET phones == PhonesOf(book, ret'.args[1])
            old == ret'.args[2]
            new == ret'.args[3]
        IN  /\ ret'.exc # "" => book' = book
            /\ ~Contains(phones, old) =>
                  /\ ret'.exc = "ValueError"
                  /\ ret'.msg = "Old number " \o old \o " not found"
            /\ (Contains(phones, old) /\ ~TenDigits(new)) =>
                  /\ ret'.exc = "ValueError"
                  /\ ret'.msg = "The phone number must be a string of 10 digits"

\* C4: an edit_phone call that fails leaves the phone list (the whole book) as
\* it was: with the old number absent it fails as not found, whatever the new
\* number is; with the old number present and the new one not ten digits it
\* fails on the validation of the new number.
C4_FailedEditLeavesPhones == [][C4_FailedEditStep]_vars

\* A failed edit of a number that is in a list of two phones or more.
C4_Witness ==
    /\ ret.op = "edit_phone"
    /\ ret.exc = "ValueError"
    /\ Len(PhonesOf(book, ret.args[1])) >= 2
    /\ Contains(PhonesOf(book, ret.args[1]), ret.args[2])

\* A successful edit_phone leaving no phone equal to the old number.
C5_EditStepOriginal ==
    ret'.op = "edit_phone" =>
        LET before == PhonesOf(book, ret'.args[1])
            after == PhonesOf(book', ret'.args[1])
            old == ret'.args[2]
            new == ret'.args[3]
        IN  (Contains(before, old) /\ TenDigits(new) /\ new # old) =>
                /\ Len(after) = Len(before)
                /\ Contains(after, new)
                /\ ~Contains(after, old)

\* C5 as claimed: edit_phone(old, new) with old in the list and a valid new
\* other than old keeps the length of the list, and afterwards the list
\* contains new and no longer contains old.
C5_EditRemovesOld == [][C5_EditStepOriginal]_vars

\* A successful edit_phone removing one phone equal to the old number.
C5_EditStepAmended ==
    ret'.op = "edit_phone" =>
        LET before == PhonesOf(book, ret'.args[1])
            after == PhonesOf(book', ret'.args[1])
            old == ret'.args[2]
            new == ret'.args[3]
        IN  (Contains(before, old) /\ TenDigits(new) /\ new # old) =>
                /\ ret'.exc = ""
                /\ Len(after) = Len(before)
                /\ Contains(after, new)
                /\ Count(after, old) = Count(before, old) - 1
                /\ after = Append(WithoutFirst(before, old), new)

\* C5 as amended: the call succeeds, keeps the length of the list, removes the
\* first occurrence of old only and puts new at the end of the list: old occurs
\* one time fewer than before.
C5_EditRemovesOneOld == [][C5_EditStepAmended]_vars

\* A successful edit after which the old number is still in the list.
C5_Witness ==
    /\ ret.op = "edit_phone"
    /\ ret.exc = ""
    /\ ret.args[2] # ret.args[3]
    /\ Contains(PhonesOf(book, ret.args[1]), ret.args[2])
    /\ Contains(PhonesOf(book, ret.args[1]), ret.args[3])

\* C6: no failure leaves the interactive loop: main ends on close or exit only,
\* and every other line read has its one message printed.
C6_NoFailureEscapesLoop ==
    /\ session.status # "crashed"
    /\ session.status = "ended" => LineParts[session.line][1] \in {"close", "exit"}
    /\ (session.status = "running" /\ LineParts[session.line] # <<>>) => session.printed

\* What a step that is a call of delete does to the book.
C7_DeleteStep ==
    ret'.op = "delete" =>
        LET name == ret'.args[1]
        IN  /\ name \notin Keys(book) =>
                  /\ ret'.exc = "ValueError"
                  /\ ret'.msg = "Record with name " \o name \o " not found."
                  /\ book' = book
            /\ name \in Keys(book) =>
                  /\ ret'.exc = ""
                  /\ find(book', name) = <<>>
                  /\ book' = SelectSeq(book, LAMBDA e : e.key # name)

\* C7: delete(name) of an absent name fails as not found and leaves the book as
\* it was; of a present name it removes that entry, so that find(name) is
\* absent, and keeps every other entry and their order.
C7_DeleteRemovesExactlyName == [][C7_DeleteStep]_vars

\* A delete that succeeded and left another record, with its phones, behind.
C7_Witness ==
    /\ ret.op = "delete"
    /\ ret.exc = ""
    /\ Len(book) = 1
    /\ Len(book[1].rec.phones) >= 2

\* What a step that is a call of remove_phone returns and does to the book.
C8_RemoveStep ==
    ret'.op = "remove_phone" =>
        LET before == PhonesOf(book, ret'.args[1])
            after == PhonesOf(book', ret'.args[1])
            raw == ret'.args[2]
        IN  /\ ret'.exc = ""
            /\ ret'.flag <=> Contains(before, raw)
            /\ ret'.flag => after = WithoutFirst(before, raw)
            /\ ~ret'.flag => book' = book
            /\ \A i \in 1..Len(book) :
                  book[i].key # ret'.args[1] => book'[i] = book[i]

\* C8: remove_phone(raw) returns true exactly when a phone equals raw, and then
\* removes the first such phone only, the others keeping their order; it
\* returns false otherwise, raising nothing and leaving the list as it was.
C8_RemovePhoneFirstMatch == [][C8_RemoveStep]_vars

\* A remove_phone that returned true and left a later duplicate in the list,
\* behind a phone of another value.
C8_Witness ==
    /\ ret.op = "remove_phone"
    /\ ret.flag
    /\ Len(PhonesOf(book, ret.args[1])) = 2
    /\ PhonesOf(book, ret.args[1])[1] # ret.args[2]
    /\ PhonesOf(book, ret.args[1])[2] = ret.args[2]

\* What an iteration of main that reads an add command prints and does to the book.
C9_AddStep ==
    (LineParts[session'.line] # <<>> /\ LineParts[session'.line][1] = "add") =>
        LET args == LineArgs[session'.line]
        IN  /\ (Len(args) = 2 /\ args[1] \in Keys(book)) =>
                  /\ session'.printed
                  /\ StartsWith(session'.out, "ValueError: ")
            /\ (Len(args) # 2 \/ args[1] \in Keys(book) \/ ~TenDigits(args[2])) =>
                  /\ session'.out # "Contact added."
                  /\ book' = book
            /\ session'.out # "Contact added." => book' = book

\* C9: an add command naming a contact that exists prints an error, and an add
\* command that does not add (existing name, invalid phone, wrong number of
\* arguments) leaves the book as it was.
C9_FailedAddLeavesBook == [][C9_AddStep]_vars

\* An add refused for a contact that has a birthday and another phone.
C9_Witness ==
    /\ session.line = "add Ann 4445556666"
    /\ session.out = "ValueError: Contact with name Ann already exists."
    /\ PhonesOf(book, "Ann") = <<"1112223333">>
    /\ find(book, "Ann")[1].birthday # <<>>

\* The shape of the records a session builds.
C10_SessionRecords ==
    \A i \in 1..Len(book) :
        /\ book[i].key = book[i].rec.name
        /\ Len(book[i].rec.phones) = 1
        /\ TenDigits(book[i].rec.phones[1])
        /\ \A j \in 1..Len(book) : book[j].key = book[i].key => j = i

====
